---- MODULE Spec2Model ----
(***************************************************************************)
(* epicsdbbuilder: the ConstArray link value (const_array.py) and the      *)
(* record naming context its example script (examples/test.py) drives.     *)
(*                                                                         *)
(* Text is a sequence of one-character strings, so that quoting, joining   *)
(* and number formatting are computed character by character.              *)
(***************************************************************************)
EXTENDS Integers, Sequences, FiniteSets

\* ------------------------------------------------------------------ bounds

\* Longest iterable passed when two ConstArrays are built and compared.
PairMaxLen == 2

\* Deepest nesting of PushPrefix calls.
MaxDepth == 2

\* Longest iterable the host script passes to ConstArray.
MaxLen == 3

\* ------------------------------------------------------------- characters

QUOTE == "\""
BSL == "\\"
NL == "\n"

None == <<>>
Some(x) == <<x>>

\* ---------------------------------------------------------- element values

\* A Python value: its class and its payload.
Parameter(name) == [kind |-> "Parameter", v |-> name]
PyStr(s) == [kind |-> "str", v |-> s]
PyInt(n) == [kind |-> "int", v |-> n]
PyBool(b) == [kind |-> "bool", v |-> b]
\* A float with one fractional digit (whole.tenth), exactly representable.
PyFloat(neg, whole, tenth) ==
    [kind |-> "float", v |-> [neg |-> neg, whole |-> whole, tenth |-> tenth]]
\* decimal.Decimal: sign, coefficient digits, exponent (Decimal('1.50') is
\* sign 0, digits 1 5 0, exponent -2).
Decimal(neg, digits, exp) ==
    [kind |-> "Decimal", v |-> [neg |-> neg, digits |-> digits, exp |-> exp]]
PyNone == [kind |-> "NoneType", v |-> "None"]

\* isinstance(value, classes): bool is a subclass of int.
isinstance(value, classes) ==
    \/ value.kind \in classes
    \/ value.kind = "bool" /\ "int" \in classes

\* The values the host script puts into an iterable.
Strings == {PyStr(<<"A">>), PyStr(<<"B">>), PyStr(<<"C">>),
            PyStr(<<QUOTE, BSL, NL>>)}
Parameters == {Parameter(<<"P">>)}
Ints == {PyInt(1), PyInt(2), PyInt(3), PyInt(-12)}
Bools == {PyBool(TRUE), PyBool(FALSE)}
Floats == {PyFloat(FALSE, 1, 5), PyFloat(TRUE, 0, 5)}
Decimals == {Decimal(FALSE, <<1, 5, 0>>, -2),
             Decimal(TRUE, <<5>>, -1)}
Others == {PyNone}
Elems == Strings \cup Parameters \cup Ints \cup Bools \cup Floats
            \cup Decimals \cup Others

\* The values two ConstArrays that are compared are built from.
PairElems == {Parameter(<<"P">>), PyStr(<<"$", "(", "P", ")">>),
              PyStr(<<"A">>), PyStr(<<"A", ",", "A">>),
              PyInt(1), PyBool(TRUE)}
PairSeqs == UNION {[1..n -> PairElems] : n \in 0..PairMaxLen}

\* Arguments the builder passes to the Validate / FormatDb callbacks.
RecordArgs == {"ai", "stringin"}
FieldArgs == {"INP", "VAL"}

\* The ConstArray objects the script builds.
Objs == {"a", "b"}

RawRef(o) == <<o, "raw_value">>
ListRef(o) == <<o, "value_list">>
Refs == {RawRef(o) : o \in Objs} \cup {ListRef(o) : o \in Objs}

VARIABLES
    debug,      \* Python's __debug__: FALSE under -O, where assert is skipped
    heap,       \* the list objects: reference -> contents
    obj,        \* obj[o]: None, or Some([value |-> reference]) (self.__value)
    out,        \* out[o]: None, or Some(text) last returned by FormatDb
    raised,     \* None, or Some(exception) that aborted the script
    last,       \* the last call made
    built,      \* built[o]: the elements the iterable held when o was built
    names,      \* the active record name strategy
    prefix,     \* the active prefix stack
    records,    \* the records created so far
    dup         \* None, or Some(DuplicateNameError)

vars == <<debug, heap, obj, out, raised, last, built, names, prefix, records, dup>>
arrayVars == <<debug, heap, obj, out, raised, last, built>>
nameVars == <<names, prefix, records, dup>>

\* ----------------------------------------------------------- Python str()

DigitChar(d) == <<"0", "1", "2", "3", "4", "5", "6", "7", "8", "9">>[d + 1]

RECURSIVE NatStr(_)
NatStr(n) == IF n < 10 THEN <<DigitChar(n)>>
             ELSE NatStr(n \div 10) \o <<DigitChar(n % 10)>>

IntStr(n) == IF n < 0 THEN <<"-">> \o NatStr(-n) ELSE NatStr(n)

FloatStr(f) ==
    (IF f.neg THEN <<"-">> ELSE <<>>) \o NatStr(f.whole) \o <<".">>
        \o <<DigitChar(f.tenth)>>

DigitsStr(ds) == [i \in 1..Len(ds) |-> DigitChar(ds[i])]

Zeros(n) == [i \in 1..n |-> "0"]

\* Decimal.__str__ for a finite value with exponent <= 0 and more than -6
\* digits left of the point (no scientific notation).
DecimalStr(d) ==
    LET dotplace == Len(d.digits) + d.exp
        intpart == IF dotplace <= 0 THEN <<"0">>
                   ELSE SubSeq(DigitsStr(d.digits), 1, dotplace)
        fracpart == IF dotplace <= 0
                    THEN <<".">> \o Zeros(-dotplace) \o DigitsStr(d.digits)
                    ELSE IF dotplace >= Len(d.digits) THEN <<>>
                    ELSE <<".">> \o SubSeq(DigitsStr(d.digits), dotplace + 1,
                                           Len(d.digits))
    IN (IF d.neg THEN <<"-">> ELSE <<>>) \o intpart \o fracpart

\* str(value) for the classes that reach the last line of _format_constant.
str(value) ==
    CASE value.kind = "int" -> IntStr(value.v)
      [] value.kind = "bool" ->
            IF value.v THEN <<"T", "r", "u", "e">>
            ELSE <<"F", "a", "l", "s", "e">>
      [] value.kind = "float" -> FloatStr(value.v)
      [] value.kind = "Decimal" -> DecimalStr(value.v)
      [] value.kind = "NoneType" -> <<"N", "o", "n", "e">>
      [] value.kind = "str" -> value.v

\* str(Parameter): the macro reference to the parameter's name.
Parameter__str__(value) == <<"$", "(">> \o value.v \o <<")">>

\* quote_string: the string in double quotes, with double quote, backslash
\* and control characters each escaped by a backslash.
EscapeChar(c) ==
    CASE c = QUOTE -> <<BSL, QUOTE>>
      [] c = BSL -> <<BSL, BSL>>
      [] c = NL -> <<BSL, "n">>
      [] OTHER -> <<c>>

RECURSIVE Escape(_)
Escape(s) == IF s = <<>> THEN <<>> ELSE EscapeChar(Head(s)) \o Escape(Tail(s))

quote_string(s) == <<QUOTE>> \o Escape(s) \o <<QUOTE>>

\* ------------------------------------------------------------- ConstArray

AssertionError(what, index) ==
    [type |-> "AssertionError", what |-> what, index |-> index]

\* One pass of the for loop of _sanitize from position i (1-based; the
\* reported index is the 0-based enumerate index): None, or the exception
\* of the first failing assert. A failing assert raises only when dbg.
RECURSIVE SanitizeLoop(_, _, _, _, _)

\* Mutant: the loop reports the 1-based position instead of the index.
SanitizeLoop_OneBased(value_list, i, numbers, strings, dbg) ==
    IF i > Len(value_list) THEN None
    ELSE LET value == value_list[i]
             index == i
             valid_types == {"Parameter", "str", "int", "float", "bool",
                             "Decimal"}
         IN IF dbg /\ ~isinstance(value, valid_types)
            THEN Some(AssertionError("element type", index))
            ELSE IF isinstance(value, {"Parameter", "str"})
            THEN IF dbg /\ numbers
                 THEN Some(AssertionError("cannot mix strings", index))
                 ELSE SanitizeLoop(value_list, i + 1, numbers, TRUE, dbg)
            ELSE IF dbg /\ strings
                 THEN Some(AssertionError("cannot mix numbers", index))
                 ELSE SanitizeLoop(value_list, i + 1, TRUE, strings, dbg)

\* Mutant: the loop lacks the assert on the element's type.
SanitizeLoop_NoTypeCheck(value_list, i, numbers, strings, dbg) ==
    IF i > Len(value_list) THEN None
    ELSE LET value == value_list[i]
             index == i - 1
         IN IF isinstance(value, {"Parameter", "str"})
            THEN IF dbg /\ numbers
                 THEN Some(AssertionError("cannot mix strings", index))
                 ELSE SanitizeLoop(value_list, i + 1, numbers, TRUE, dbg)
            ELSE IF dbg /\ strings
                 THEN Some(AssertionError("cannot mix numbers", index))
                 ELSE SanitizeLoop(value_list, i + 1, TRUE, strings, dbg)

SanitizeLoop(value_list, i, numbers, strings, dbg) ==
    IF i > Len(value_list) THEN None
    ELSE LET value == value_list[i]
             index == i - 1
             valid_types == {"Parameter", "str", "int", "float", "bool",
                             "Decimal"}
         IN IF dbg /\ ~isinstance(value, valid_types)
            THEN Some(AssertionError("element type", index))
            ELSE IF isinstance(value, {"Parameter", "str"})
            THEN IF dbg /\ numbers
                 THEN Some(AssertionError("cannot mix strings", index))
                 ELSE SanitizeLoop(value_list, i + 1, numbers, TRUE, dbg)
            ELSE IF dbg /\ strings
                 THEN Some(AssertionError("cannot mix numbers", index))
                 ELSE SanitizeLoop(value_list, i + 1, TRUE, strings, dbg)

\* Mutant: _sanitize checks raw_value and returns it, without list().
_sanitize_NoCopy(h, o, dbg) ==
    LET value_list == h[RawRef(o)]
    IN IF dbg /\ ~(Len(value_list) > 0)
       THEN [exc |-> Some(AssertionError("empty iterable", -1)),
             heap |-> h, ret |-> RawRef(o)]
       ELSE [exc |-> SanitizeLoop(value_list, 1, FALSE, FALSE, dbg),
             heap |-> h, ret |-> RawRef(o)]

\* _sanitize(raw_value) on heap h for object o: the exception raised (or
\* None), the heap after list(raw_value), and the reference returned.
_sanitize(h, o, dbg) ==
    LET value_list == h[RawRef(o)]
        h2 == [h EXCEPT ![ListRef(o)] = value_list]
    IN IF dbg /\ ~(Len(value_list) > 0)
       THEN [exc |-> Some(AssertionError("empty iterable", -1)),
             heap |-> h2, ret |-> ListRef(o)]
       ELSE [exc |-> SanitizeLoop(value_list, 1, FALSE, FALSE, dbg),
             heap |-> h2, ret |-> ListRef(o)]

\* Mutant: a Parameter is rendered without the surrounding quotes.
_format_constant_BareParameter(value) ==
    IF isinstance(value, {"Parameter"}) THEN Parameter__str__(value)
    ELSE IF isinstance(value, {"str"}) THEN quote_string(value.v)
    ELSE IF isinstance(value, {"bool"})
    THEN (IF value.v THEN <<"1">> ELSE <<"0">>)
    ELSE str(value)

\* Mutant: no rule for bool, which falls through to str(value).
_format_constant_NoBoolRule(value) ==
    IF isinstance(value, {"Parameter"})
    THEN <<QUOTE>> \o Parameter__str__(value) \o <<QUOTE>>
    ELSE IF isinstance(value, {"str"}) THEN quote_string(value.v)
    ELSE str(value)

\* Mutant: a string is rendered as it is, without quote_string.
_format_constant_RawString(value) ==
    IF isinstance(value, {"Parameter"})
    THEN <<QUOTE>> \o Parameter__str__(value) \o <<QUOTE>>
    ELSE IF isinstance(value, {"str"}) THEN value.v
    ELSE IF isinstance(value, {"bool"})
    THEN (IF value.v THEN <<"1">> ELSE <<"0">>)
    ELSE str(value)

_format_constant(value) ==
    IF isinstance(value, {"Parameter"})
    THEN <<QUOTE>> \o Parameter__str__(value) \o <<QUOTE>>
    ELSE IF isinstance(value, {"str"}) THEN quote_string(value.v)
    ELSE IF isinstance(value, {"bool"})
    THEN (IF value.v THEN <<"1">> ELSE <<"0">>)
    ELSE str(value)

\* ','.join(formatted)
RECURSIVE join(_, _)
join(sep, parts) ==
    IF parts = <<>> THEN <<>>
    ELSE IF Len(parts) = 1 THEN parts[1]
    ELSE parts[1] \o sep \o join(sep, Tail(parts))

\* Mutant: the elements are joined by ', ' instead of ','.
FormatDbText_Spaced(value) ==
    LET formatted == [i \in 1..Len(value) |-> _format_constant(value[i])]
    IN <<"[">> \o join(<<",", " ">>, formatted) \o <<"]">>

\* The text FormatDb returns for the list self.__value holds.
FormatDbText(value) ==
    LET formatted == [i \in 1..Len(value) |-> _format_constant(value[i])]
    IN <<"[">> \o join(<<",">>, formatted) \o <<"]">>

\* The list self.__value of object o holds.
ValueOf(o) == heap[obj[o][1].value]

Call(op, o, record, fieldname) ==
    [op |-> op, o |-> o, record |-> record, fieldname |-> fieldname]

\* The host script builds the iterable it will pass, one element at a time.
CallerAppend(o, e) ==
    /\ raised = None
    /\ obj[o] = None
    /\ Len(heap[RawRef(o)]) < MaxLen
    /\ heap' = [heap EXCEPT ![RawRef(o)] = Append(@, e)]
    /\ last' = Call("append", o, "-", "-")
    /\ UNCHANGED <<debug, obj, out, raised, built, nameVars>>

\* The host script empties its own iterable after the ConstArray was built.
CallerClear(o) ==
    /\ raised = None
    /\ obj[o] # None
    /\ heap[RawRef(o)] # <<>>
    /\ heap' = [heap EXCEPT ![RawRef(o)] = <<>>]
    /\ last' = Call("clear", o, "-", "-")
    /\ UNCHANGED <<debug, obj, out, raised, built, nameVars>>

\* ConstArray(value)
__init__(o) ==
    /\ raised = None
    /\ obj[o] = None
    /\ LET r == _sanitize(heap, o, debug)
       IN /\ heap' = r.heap
          /\ raised' = r.exc
          /\ obj' = IF r.exc = None
                    THEN [obj EXCEPT ![o] = Some([value |-> r.ret])]
                    ELSE obj
    /\ built' = [built EXCEPT ![o] = heap[RawRef(o)]]
    /\ last' = Call("__init__", o, "-", "-")
    /\ UNCHANGED <<debug, out, nameVars>>

\* Mutant: Validate consumes one element of the stored list.
Validate_Consuming(o, record, fieldname) ==
    /\ raised = None
    /\ obj[o] # None
    /\ heap' = [heap EXCEPT ![obj[o][1].value] =
                    IF @ = <<>> THEN @ ELSE Tail(@)]
    /\ last' = Call("Validate", o, record, fieldname)
    /\ UNCHANGED <<debug, obj, out, raised, built, nameVars>>

Validate(o, record, fieldname) ==
    /\ raised = None
    /\ obj[o] # None
    /\ last' = Call("Validate", o, record, fieldname)
    /\ UNCHANGED <<debug, heap, obj, out, raised, built, nameVars>>

FormatDb(o, record, fieldname) ==
    /\ raised = None
    /\ obj[o] # None
    /\ out' = [out EXCEPT ![o] = Some(FormatDbText(ValueOf(o)))]
    /\ last' = Call("FormatDb", o, record, fieldname)
    /\ UNCHANGED <<debug, heap, obj, raised, built, nameVars>>

\* repr(array): reads self.__value; the text is returned to the caller.
__repr__(o) ==
    /\ raised = None
    /\ obj[o] # None
    /\ last' = Call("__repr__", o, "-", "-")
    /\ UNCHANGED <<debug, heap, obj, out, raised, built, nameVars>>

\* ------------------------------------------------------- record names

\* The naming strategies (TemplateRecordNames(), SimpleRecordNames(.., ':')).
TemplateRecordNames == [kind |-> "template", delimiter |-> ""]
SimpleRecordNames(delimiter) == [kind |-> "delimited", delimiter |-> delimiter]
Strategies == {TemplateRecordNames, SimpleRecordNames(":")}

\* The prefixes the script pushes, and the short name of its records.
Prefixes == {<<"A", "B", "C">>, <<"X">>, <<"X", ":", "A", "B", "C">>}
TEST == <<"T", "E", "S", "T">>
\* The statements of the script that create a record named TEST.
Sites == {"records.ai('TEST') #1", "records.ai('TEST') #2"}

\* Mutant: the delimited strategy ignores the prefix stack.
resolve_NoPrefix(strategy, stack, short) == short

\* The canonical name of a record: the short name itself under the template
\* strategy; the active prefixes and the short name joined by the
\* delimiter under the delimited strategy.
resolve(strategy, stack, short) ==
    IF strategy.kind = "template" THEN short
    ELSE join(<<strategy.delimiter>>, Append(stack, short))

SetRecordNames(strategy) ==
    /\ dup = None
    /\ names # strategy
    /\ names' = strategy
    /\ UNCHANGED <<prefix, records, dup, arrayVars>>

PushPrefix(p) ==
    /\ dup = None
    /\ Len(prefix) < MaxDepth
    /\ prefix' = Append(prefix, p)
    /\ UNCHANGED <<names, records, dup, arrayVars>>

PopPrefix ==
    /\ dup = None
    /\ prefix # <<>>
    /\ prefix' = SubSeq(prefix, 1, Len(prefix) - 1)
    /\ UNCHANGED <<names, records, dup, arrayVars>>

\* records.<type>(short) at one statement of the script: the record is
\* registered under its canonical name, or DuplicateNameError is raised
\* when a record already has that name.
CreateRecord(site, short) ==
    /\ dup = None
    /\ \A r \in records : r.site # site
    /\ LET new == [site |-> site, name |-> resolve(names, prefix, short),
                   short |-> short, names |-> names, scope |-> prefix]
       IN IF \E r \in records : r.name = new.name
          THEN /\ dup' = Some(new)
               /\ UNCHANGED records
          ELSE /\ records' = records \cup {new}
               /\ UNCHANGED dup
    /\ UNCHANGED <<names, prefix, arrayVars>>

InitArrays ==
    /\ heap = [r \in Refs |-> <<>>]
    /\ obj = [o \in Objs |-> None]
    /\ out = [o \in Objs |-> None]
    /\ raised = None
    /\ last = Call("start", "-", "-", "-")
    /\ built = [o \in Objs |-> <<>>]

InitNamesIdle ==
    /\ names = TemplateRecordNames
    /\ prefix = <<>>
    /\ records = {}
    /\ dup = None

\* One ConstArray, built by the default interpreter (assert statements run).
Init ==
    /\ debug = TRUE
    /\ InitArrays
    /\ InitNamesIdle

Next ==
    \/ \E e \in Elems : CallerAppend("a", e)
    \/ CallerClear("a")
    \/ __init__("a")
    \/ \E r \in RecordArgs, f \in FieldArgs : Validate("a", r, f)
    \/ \E r \in RecordArgs, f \in FieldArgs : FormatDb("a", r, f)
    \/ __repr__("a")

Spec == Init /\ [][Next]_vars

\* The same script under any interpreter setting (python -O clears
\* __debug__ and compiles the assert statements away).
InitAnyDebug ==
    /\ debug \in BOOLEAN
    /\ InitArrays
    /\ InitNamesIdle

SpecAnyDebug == InitAnyDebug /\ [][Next]_vars

\* Two ConstArrays built from two iterables of the script, each formatted.
InitPair ==
    /\ debug = TRUE
    /\ \E sa \in PairSeqs, sb \in PairSeqs :
          heap = [r \in Refs |-> IF r = RawRef("a") THEN sa
                                 ELSE IF r = RawRef("b") THEN sb ELSE <<>>]
    /\ obj = [o \in Objs |-> None]
    /\ out = [o \in Objs |-> None]
    /\ raised = None
    /\ last = Call("start", "-", "-", "-")
    /\ built = [o \in Objs |-> <<>>]
    /\ InitNamesIdle

NextPair ==
    \/ \E o \in Objs : __init__(o)
    \/ \E o \in Objs, r \in RecordArgs, f \in FieldArgs : FormatDb(o, r, f)

SpecPair == InitPair /\ [][NextPair]_vars

\* The naming operations of the script, in any order.
InitNames ==
    /\ debug = TRUE
    /\ InitArrays
    /\ names \in Strategies
    /\ prefix = <<>>
    /\ records = {}
    /\ dup = None

NextNames ==
    \/ \E st \in Strategies : SetRecordNames(st)
    \/ \E p \in Prefixes : PushPrefix(p)
    \/ PopPrefix
    \/ \E site \in Sites : CreateRecord(site, TEST)

SpecNames == InitNames /\ [][NextNames]_vars

\* ------------------------------------------------------------------ claims

StringLike(e) == e.kind \in {"str", "Parameter"}
NumericLike(e) == e.kind \in {"int", "float", "bool", "Decimal"}
ValidKind(e) == StringLike(e) \/ NumericLike(e)
Category(e) == IF StringLike(e) THEN "string-like"
               ELSE IF NumericLike(e) THEN "numeric-like" ELSE "neither"

AllOf(P(_), s) == \A i \in 1..Len(s) : P(s[i])
AnyOf(P(_), s) == \E i \in 1..Len(s) : P(s[i])
IsParameter(e) == e.kind = "Parameter"
IsPlainString(e) == e.kind = "str"
IsBool(e) == e.kind = "bool"

\* The iterable object o was, or is about to be, built from.
Arg(o) == heap[RawRef(o)]
\* The constructor call for o has just returned or raised.
JustBuilt(o) == last.op = "__init__" /\ last.o = o
Rejected(o) ==
    /\ raised # None
    /\ raised[1].type = "AssertionError"
    /\ obj[o] = None
Accepted(o) ==
    /\ raised = None
    /\ obj[o] # None
    /\ ValueOf(o) = Arg(o)

\* Smallest 0-based index whose element satisfies Bad.
FirstIndex(Bad(_), s) ==
    (CHOOSE i \in 1..Len(s) :
        Bad(s[i]) /\ \A j \in 1..(i - 1) : ~Bad(s[j])) - 1

\* The rendering the formatter rules give one element.
Rendering(e) ==
    CASE e.kind = "Parameter" -> <<QUOTE>> \o Parameter__str__(e) \o <<QUOTE>>
      [] e.kind = "str" -> quote_string(e.v)
      [] e.kind = "bool" -> IF e.v THEN <<"1">> ELSE <<"0">>
      [] e.kind = "int" -> IntStr(e.v)
      [] e.kind = "float" -> FloatStr(e.v)
      [] e.kind = "Decimal" -> DecimalStr(e.v)

\* '[' v1 ',' v2 ... ',' vn ']', built from the right.
RECURSIVE CommaList(_)
CommaList(s) ==
    IF Len(s) = 1 THEN Rendering(s[1])
    ELSE CommaList(SubSeq(s, 1, Len(s) - 1)) \o <<",">> \o Rendering(s[Len(s)])

Bracketed(s) == <<"[">> \o CommaList(s) \o <<"]">>

A == PyStr(<<"A">>)
B == PyStr(<<"B">>)
C == PyStr(<<"C">>)
P == Parameter(<<"P">>)

\* C1: constructing a ConstArray from an iterable that yields no element
\* always fails with the validation error and creates no object, whatever
\* the interpreter setting.
C1_EmptyAlwaysRejected ==
    \A o \in Objs : (JustBuilt(o) /\ Arg(o) = <<>>) => Rejected(o)

\* C2 as stated: a sequence holding a string-like and a numeric-like element
\* is rejected, and the reported index is that of the first element whose
\* category differs from the category of element 0.
C2_IndexIsFirstContradiction ==
    \A o \in Objs :
        (JustBuilt(o) /\ AnyOf(StringLike, Arg(o)) /\ AnyOf(NumericLike, Arg(o)))
        => /\ Rejected(o)
           /\ LET Contradicts(e) == Category(e) # Category(Arg(o)[1])
              IN raised[1].index = FirstIndex(Contradicts, Arg(o))

\* C2 amended: a sequence holding a string-like and a numeric-like element
\* is rejected, and the reported index is that of the first element that is
\* not of a valid kind or whose category differs from that of element 0.
C2_IndexIsFirstOffender ==
    \A o \in Objs :
        (JustBuilt(o) /\ AnyOf(StringLike, Arg(o)) /\ AnyOf(NumericLike, Arg(o)))
        => /\ Rejected(o)
           /\ LET Offends(e) == \/ ~ValidKind(e)
                                \/ Category(e) # Category(Arg(o)[1])
              IN raised[1].index = FirstIndex(Offends, Arg(o))

C2_Witness ==
    /\ JustBuilt("a")
    /\ Arg("a") = <<A, PyNone, PyInt(1)>>
    /\ raised = Some(AssertionError("element type", 1))

\* C3: a sequence with an element that is not a Parameter, string, integer,
\* float, boolean or decimal is rejected, whatever its other elements.
C3_InvalidKindRejected ==
    \A o \in Objs :
        (JustBuilt(o) /\ \E i \in 1..Len(Arg(o)) : ~ValidKind(Arg(o)[i]))
        => Rejected(o)

C3_Witness ==
    /\ JustBuilt("a")
    /\ Arg("a") = <<A, PyInt(1), PyNone>>
    /\ Rejected("a")

\* C4: a non-empty sequence of plain strings only, or of numbers only, is
\* accepted, and FormatDb returns '[' + the renderings in order joined by
\* ',' + ']' whatever record and fieldname it is given.
C4_HomogeneousAcceptedAndRendered ==
    \A o \in Objs :
        /\ (/\ JustBuilt(o)
            /\ Arg(o) # <<>>
            /\ AllOf(IsPlainString, Arg(o)) \/ AllOf(NumericLike, Arg(o)))
           => Accepted(o)
        /\ (/\ out[o] # None
            /\ AllOf(IsPlainString, built[o]) \/ AllOf(NumericLike, built[o]))
           => /\ out[o][1] = Bracketed(built[o])
              /\ built[o] = <<A, B, C>> =>
                    out[o][1] = <<"[", QUOTE, "A", QUOTE, ",", QUOTE, "B",
                                  QUOTE, ",", QUOTE, "C", QUOTE, "]">>
              /\ built[o] = <<PyInt(1), PyInt(2), PyInt(3)>> =>
                    out[o][1] = <<"[", "1", ",", "2", ",", "3", "]">>
              /\ built[o] = <<PyInt(-12), PyFloat(TRUE, 0, 5),
                              Decimal(FALSE, <<1, 5, 0>>, -2)>> =>
                    out[o][1] = <<"[", "-", "1", "2", ",", "-", "0", ".", "5",
                                  ",", "1", ".", "5", "0", "]">>
              /\ built[o] = <<PyStr(<<QUOTE, BSL, NL>>)>> =>
                    out[o][1] = <<"[", QUOTE, BSL, QUOTE, BSL, BSL, BSL, "n",
                                  QUOTE, "]">>

C4_Witness ==
    /\ last.op = "FormatDb"
    /\ last.record = "stringin"
    /\ last.fieldname = "VAL"
    /\ built["a"] = <<A, B, C>>
    /\ out["a"] = Some(<<"[", QUOTE, "A", QUOTE, ",", QUOTE, "B", QUOTE, ",",
                         QUOTE, "C", QUOTE, "]">>)

\* C5: Parameters are string-like: a non-empty sequence of Parameters and
\* plain strings (Parameters only included) is accepted, a sequence with a
\* Parameter and a numeric-like element is rejected, and FormatDb renders a
\* Parameter as its textual form between double quotes.
C5_ParametersAreStringLike ==
    \A o \in Objs :
        /\ (JustBuilt(o) /\ Arg(o) # <<>> /\ AllOf(StringLike, Arg(o)))
           => Accepted(o)
        /\ (/\ JustBuilt(o)
            /\ AnyOf(IsParameter, Arg(o))
            /\ AnyOf(NumericLike, Arg(o)))
           => Rejected(o)
        /\ (out[o] # None /\ AllOf(StringLike, built[o]))
           => /\ out[o][1] = Bracketed(built[o])
              /\ built[o] = <<P>> =>
                    out[o][1] = <<"[", QUOTE>> \o Parameter__str__(P)
                                    \o <<QUOTE, "]">>

C5_Witness ==
    /\ last.op = "FormatDb"
    /\ built["a"] = <<P, A, P>>
    /\ out["a"] # None

\* C6: Validate never raises and changes nothing, however often and with
\* whatever arguments it is called, and FormatDb returns after such calls
\* the text it returned before them.
C6_ValidateChangesNothing ==
    [][/\ last'.op = "Validate"
          => /\ raised' = None
             /\ <<heap', obj', out', built'>> = <<heap, obj, out, built>>
       /\ (last'.op = "FormatDb" /\ out[last'.o] # None)
          => out'[last'.o] = out[last'.o]]_vars

C6_Witness ==
    /\ last.op = "Validate"
    /\ last.record = "stringin"
    /\ last.fieldname = "VAL"
    /\ raised = None
    /\ built["a"] = <<PyBool(TRUE), PyBool(FALSE)>>
    /\ ValueOf("a") = built["a"]
    /\ out["a"] = Some(<<"[", "1", ",", "0", "]">>)

\* C8: an existing ConstArray holds, in every state, the elements read at
\* construction in their order, at least one of them, all string-like or
\* all numeric-like, whatever was called on it or done to its iterable.
C8_ImmutableAndValid ==
    \A o \in Objs :
        obj[o] # None
        => /\ ValueOf(o) = built[o]
           /\ Len(ValueOf(o)) >= 1
           /\ AllOf(StringLike, ValueOf(o)) \/ AllOf(NumericLike, ValueOf(o))

C8_Witness ==
    /\ obj["a"] # None
    /\ last.op = "__repr__"
    /\ built["a"] = <<P, A>>
    /\ Arg("a") = <<>>
    /\ out["a"] # None

\* C10: a boolean is numeric-like (accepted with integers, floats and
\* decimals, rejected with strings or Parameters) and FormatDb renders it
\* as 1 for true and 0 for false, never as True or False.
C10_BooleanIsNumberOneOrZero ==
    \A o \in Objs :
        /\ (JustBuilt(o) /\ AnyOf(IsBool, Arg(o)) /\ AllOf(NumericLike, Arg(o)))
           => Accepted(o)
        /\ (JustBuilt(o) /\ AnyOf(IsBool, Arg(o)) /\ AnyOf(StringLike, Arg(o)))
           => Rejected(o)
        /\ (out[o] # None /\ AnyOf(IsBool, built[o]))
           => /\ out[o][1] = Bracketed(built[o])
              /\ \A i \in 1..Len(out[o][1]) : out[o][1][i] \notin {"T", "F"}
              /\ built[o] = <<PyBool(TRUE), PyBool(FALSE)>> =>
                    out[o][1] = <<"[", "1", ",", "0", "]">>

C10_Witness ==
    /\ last.op = "FormatDb"
    /\ built["a"] = <<PyBool(TRUE), PyInt(2), PyBool(FALSE)>>
    /\ out["a"] = Some(<<"[", "1", ",", "2", ",", "0", "]">>)

\* The number a numeric-like element stands for, in hundredths.
RECURSIVE Coefficient(_)
Coefficient(ds) ==
    IF ds = <<>> THEN 0 ELSE 10 * Coefficient(SubSeq(ds, 1, Len(ds) - 1))
                             + ds[Len(ds)]
Hundredths(e) ==
    CASE e.kind = "int" -> 100 * e.v
      [] e.kind = "bool" -> IF e.v THEN 100 ELSE 0
      [] e.kind = "float" ->
            (IF e.v.neg THEN -1 ELSE 1) * (100 * e.v.whole + 10 * e.v.tenth)
      [] e.kind = "Decimal" ->
            (IF e.v.neg THEN -1 ELSE 1) * Coefficient(e.v.digits)
                * (IF e.v.exp = 0 THEN 100 ELSE IF e.v.exp = -1 THEN 10 ELSE 1)

\* Two elements are the same value: equal numbers, or the same object kind
\* with the same content.
SameValue(e1, e2) ==
    IF NumericLike(e1) /\ NumericLike(e2) THEN Hundredths(e1) = Hundredths(e2)
    ELSE e1 = e2
SameValues(s1, s2) ==
    /\ Len(s1) = Len(s2)
    /\ \A i \in 1..Len(s1) : SameValue(s1[i], s2[i])

UnderABC(r) ==
    /\ r.names.kind = "delimited"
    /\ \E i \in 1..Len(r.scope) : r.scope[i] = <<"A", "B", "C">>
\* Two records created in different naming contexts.
OtherContext(r1, r2) == r1.scope # r2.scope \/ r1.names # r2.names
\* A character occurs in a text.
Occurs(c, text) == \E i \in 1..Len(text) : text[i] = c
\* No prefix active when r was created contains r's delimiter.
PlainPrefixes(r) ==
    \A i \in 1..Len(r.scope) : ~Occurs(r.names.delimiter, r.scope[i])

\* C9 as stated: a TEST record created under the delimited strategy while
\* prefix ABC is pushed never collides with a TEST record created under
\* another prefix scope or another strategy.
C9_NoCollisionAcrossScopes ==
    dup # None =>
        \A r \in records :
            (/\ r.name = dup[1].name
             /\ r.short = TEST
             /\ dup[1].short = TEST
             /\ OtherContext(r, dup[1]))
            => ~(UnderABC(r) \/ UnderABC(dup[1]))

\* C9 amended: the same, provided no active prefix contains the delimiter.
C9_NoCollisionWithPlainPrefixes ==
    dup # None =>
        \A r \in records :
            (/\ r.name = dup[1].name
             /\ r.short = TEST
             /\ dup[1].short = TEST
             /\ OtherContext(r, dup[1])
             /\ PlainPrefixes(r)
             /\ PlainPrefixes(dup[1]))
            => ~(UnderABC(r) \/ UnderABC(dup[1]))

C9_Witness ==
    /\ dup = None
    /\ \E r1 \in records, r2 \in records :
          /\ r1.names = SimpleRecordNames(":")
          /\ r1.scope = <<<<"A", "B", "C">>>>
          /\ r1.name = <<"A", "B", "C", ":", "T", "E", "S", "T">>
          /\ r2.names = TemplateRecordNames
          /\ r2.scope = r1.scope
          /\ r2.name = TEST

====
